---- MODULE Spec2Model ----
(***************************************************************************)
(* Wallet ledger: wallets and transactions tables, the Unit of Work and    *)
(* the deposit / withdraw strategies, as a state machine of concurrent     *)
(* requests against one PostgreSQL database (READ COMMITTED, row locks).   *)
(*                                                                         *)
(* Money is an integer number of ten-thousandths (0.0001); a NUMERIC(19, 2) *)
(* column holds multiples of Quantum (0.01), a NUMERIC(19, 4) column        *)
(* multiples of Quantum4 (0.0001), and a value written to a column is       *)
(* rounded half away from zero by the database.                             *)
(***************************************************************************)
EXTENDS Integers, Sequences, FiniteSets, TLC

\* ---- bounds of the model ----
MaxReq == 3
MaxWallets == 2

\* ---- NUMERIC(19, 2): one hundredth, in ten-thousandths ----
Quantum == 100
\* ---- NUMERIC(19, 4): one ten-thousandth ----
Quantum4 == 1

\* the scale of the money columns: 2 in the tables the ORM models declare
\* (metadata.create_all), 4 in the tables the migration creates
Scales == {2, 4}

Req == 1 .. MaxReq
WalletIds == 1 .. MaxWallets

\* request bodies the clients may send
AmountInputs == {-Quantum, 0, Quantum \div 2, Quantum}
\* createWallet bodies: <<>> is an absent "balance" field
BalanceInputs == {<<>>, <<-Quantum>>, <<Quantum>>}

OperationType == {"deposit", "withdraw"}

VARIABLES
    wallets,        \* committed rows of table wallets: id -> [balance, initial]
    transactions,   \* committed rows of table transactions, in insertion order
    locks,          \* wallet id -> set of requests whose session holds its row lock
    nextId,         \* ids handed out so far + 1 (uuid4 never repeats)
    now,            \* the clock of the database server
    scale,          \* the scale of the money columns of the schema in use
    req             \* request -> its position and its session's uncommitted work

vars == <<wallets, transactions, locks, nextId, now, scale, req>>

\* op is the handler or strategy that runs the request and wid the wallet
\* id of the path; kind and body are the payload's kind and wallet_id
IdleReq ==
    [pc |-> "idle", op |-> "none", wid |-> 0, amount |-> 0,
     kind |-> "none", body |-> 0, began |-> 0,
     snap |-> 0, newbal |-> 0, txamt |-> 0,
     created_at |-> 0, updated_at |-> 0, result |-> "none"]

\* ---- the database's rounding of a value written to NUMERIC(19, 2) ----
Round2(x) ==
    IF x >= 0
    THEN ((x + Quantum \div 2) \div Quantum) * Quantum
    ELSE -((((-x) + Quantum \div 2) \div Quantum) * Quantum)

Round4(x) ==
    IF x >= 0
    THEN ((x + Quantum4 \div 2) \div Quantum4) * Quantum4
    ELSE -((((-x) + Quantum4 \div 2) \div Quantum4) * Quantum4)

\* the value a money column stores when x is written to it
NUMERIC(x) == IF scale = 2 THEN Round2(x) ELSE Round4(x)

\* ---- check constraints of the tables ----
non_negative_balance(b) == b >= 0
\* the amount constraint written with >= instead of >
positive_amount_or_zero(a) == a >= 0
positive_amount(a) == a > 0

\* ---- request validation (pydantic) ----
\* a balance field without its ge=0 bound
WalletCreateSchemaValid_unbounded(b) == TRUE

TransactionBaseSchema(a) == a >= 0
WalletCreateSchemaValid(b) == b = <<>> \/ b[1] >= 0
WalletCreateSchemaBalance(b) == IF b = <<>> THEN 0 ELSE b[1]

\* a plain SELECT: no row lock is waited for or taken
plain_select(r, w) == UNCHANGED locks

\* FOR UPDATE that does not wait for the present holder
for_update_nowait(r, w) == locks' = [locks EXCEPT ![w] = @ \cup {r}]

\* a lock of the whole table: waits for the holder of any row
lock_table(r, w) ==
    /\ \A v \in WalletIds : locks[v] \subseteq {r}
    /\ locks' = [locks EXCEPT ![w] = @ \cup {r}]

\* ---- SELECT ... FOR UPDATE: blocks until no other session holds the row
\* lock, then takes it for the rest of the session's database transaction ----
with_for_update(r, w) ==
    /\ locks[w] \subseteq {r}
    /\ locks' = [locks EXCEPT ![w] = @ \cup {r}]

\* WalletRepository.get_by_uuid: the only read of the wallet accessor in the source
get_by_uuid(r, w) == with_for_update(r, w)

\* a lock-read of the strategies that is a plain SELECT
get_raw_model_by_uuid_plain(r, w) == plain_select(r, w)

\* the lock-read the strategies call (get_for_update of the design)
get_raw_model_by_uuid(r, w) == with_for_update(r, w)

\* the operations of the transaction accessor: TransactionRepository adds
\* none of its own and inherits all of BaseRepository's
TransactionRepository == {"create", "get_list", "get_by_uuid", "update", "delete"}

\* rows of one wallet, and the ledger sum over them
RECURSIVE LedgerSum(_, _)
LedgerSum(rows, w) ==
    IF rows = <<>> THEN 0
    ELSE LET t == Head(rows)
             d == IF t.wallet_id # w THEN 0
                  ELSE IF t.kind = "deposit" THEN t.amount ELSE -t.amount
         IN d + LedgerSum(Tail(rows), w)

RowsOf(w) == SelectSeq(transactions, LAMBDA t : t.wallet_id = w)

\* a wallet row inserted at time t: created_at and updated_at take the
\* server default now(); initial is the balance it was created with
NewWallet(b, t) ==
    [balance |-> b, initial |-> b, created_at |-> t, updated_at |-> t]

Init ==
    /\ wallets = << >>
    /\ transactions = << >>
    /\ locks = [w \in WalletIds |-> {}]
    /\ nextId = 1
    /\ now = 0
    /\ scale = 2
    /\ req = [r \in Req |-> IdleReq]

\* a session whose end leaves its row locks in place
ReleaseLocks_none(r) == locks

\* ---- the end of a session's database transaction releases its row locks ----
ReleaseLocks(r) == [w \in WalletIds |-> locks[w] \ {r}]

\* a request that fails: the response carries the error alone
Finished(r, res) ==
    [IdleReq EXCEPT !.pc = "done", !.result = res]

\* a request that returns: the response carries the row
Returned(r, w, a) ==
    [IdleReq EXCEPT !.pc = "done", !.op = req[r].op, !.wid = w, !.amount = a,
                    !.result = "ok"]

\* WalletResponseSchema: the row of a wallet
WalletResponse(r, w, a, c, u) ==
    [Returned(r, w, a) EXCEPT !.created_at = c, !.updated_at = u]

Raising(r, exc) ==
    [IdleReq EXCEPT !.pc = "raising", !.op = req[r].op, !.result = exc]

\* an exception leaves the body of "async with uow": the session's work is
\* still uncommitted and its locks are still held until __aexit__ has run
raise_exc(r, exc) ==
    /\ req' = [req EXCEPT ![r] = Raising(r, exc)]
    /\ UNCHANGED <<wallets, transactions, locks>>

\* an __aexit__ that ends the request without ending the session's transaction
aexit_without_release(r) ==
    /\ req' = [req EXCEPT ![r] = Finished(r, req[r].result)]
    /\ UNCHANGED <<wallets, transactions, locks>>

\* an __aexit__ that returns a true value: the exception is suppressed
aexit_suppress(r) ==
    /\ req' = [req EXCEPT ![r] = Finished(r, "ok")]
    /\ locks' = ReleaseLocks(r)
    /\ UNCHANGED <<wallets, transactions>>

\* UnitOfWork.__aexit__ with an exception: session.rollback(), then
\* session.close(); nothing of the session's work reaches the tables
aexit(r) ==
    /\ req' = [req EXCEPT ![r] = Finished(r, req[r].result)]
    /\ locks' = ReleaseLocks(r)
    /\ UNCHANGED <<wallets, transactions>>

UnitOfWork_aexit(r) ==
    /\ req[r].pc = "raising"
    /\ aexit(r)
    /\ UNCHANGED <<nextId, now, scale>>

\* a request slot is used once; slots are taken in order
CanArrive(r) ==
    /\ req[r].pc = "idle"
    /\ IF r = 1 THEN TRUE ELSE req[r - 1].pc # "idle"

Entered(r, op, w, a) ==
    [IdleReq EXCEPT !.pc = "entered", !.op = op, !.wid = w, !.amount = a]

\* a body that fails validation: no handler and no strategy is entered; op is
\* the endpoint that was called
Rejected(r, op, w, a) ==
    [IdleReq EXCEPT !.pc = "done", !.op = op, !.result = "ValidationError"]

\* ids taken by inserts so far, and by the inserts still to come
IdsTaken == nextId - 1 + Cardinality({q \in Req : req[q].op = "create" /\ req[q].pc = "entered"})

\* ---- POST /v1/wallets ----
create_wallet_request(r) ==
    /\ CanArrive(r)
    /\ \E b \in BalanceInputs :
         IF WalletCreateSchemaValid(b)
         THEN /\ IdsTaken < MaxWallets
              /\ req' = [req EXCEPT ![r] = Entered(r, "create", 0, WalletCreateSchemaBalance(b))]
         ELSE req' = [req EXCEPT ![r] = Rejected(r, "create", 0, b[1])]
    /\ UNCHANGED <<wallets, transactions, locks, nextId, now, scale>>

\* uow.wallets.create: INSERT ... RETURNING, inside the session's transaction
create_wallet_insert(r) ==
    /\ req[r].pc = "entered"
    /\ req[r].op = "create"
    /\ LET b == NUMERIC(req[r].amount) IN
         IF non_negative_balance(b)
         THEN /\ req' = [req EXCEPT ![r].pc = "written", ![r].wid = nextId,
                                     ![r].newbal = b, ![r].began = now]
              /\ nextId' = nextId + 1
              /\ UNCHANGED <<wallets, transactions, locks>>
         ELSE /\ raise_exc(r, "IntegrityError")
              /\ UNCHANGED nextId
    /\ UNCHANGED <<now, scale>>

\* a creation that returns the request's schema instead of the stored row
create_wallet_commit_echo(r) ==
    /\ req[r].pc = "written"
    /\ req[r].op = "create"
    /\ wallets' = wallets @@ (req[r].wid :> NewWallet(req[r].newbal, req[r].began))
    /\ req' = [req EXCEPT ![r] = WalletResponse(r, req[r].wid, req[r].amount,
                                                 req[r].began, req[r].began)]
    /\ locks' = ReleaseLocks(r)
    /\ UNCHANGED <<transactions, nextId, now, scale>>

\* a creation that books the initial balance as a first deposit row
create_wallet_commit_with_row(r) ==
    /\ req[r].pc = "written"
    /\ req[r].op = "create"
    /\ wallets' = wallets @@ (req[r].wid :> NewWallet(req[r].newbal, req[r].began))
    /\ transactions' = Append(transactions,
            [wallet_id |-> req[r].wid, amount |-> req[r].newbal, kind |-> "deposit"])
    /\ req' = [req EXCEPT ![r] = WalletResponse(r, req[r].wid, req[r].newbal,
                                                 req[r].began, req[r].began)]
    /\ locks' = ReleaseLocks(r)
    /\ UNCHANGED <<nextId, now, scale>>

\* uow.commit of WalletService.create_wallet: the row becomes visible and is
\* returned as the INSERT ... RETURNING gave it
create_wallet_commit(r) ==
    /\ req[r].pc = "written"
    /\ req[r].op = "create"
    /\ wallets' = wallets @@ (req[r].wid :> NewWallet(req[r].newbal, req[r].began))
    /\ req' = [req EXCEPT ![r] = WalletResponse(r, req[r].wid, req[r].newbal,
                                                 req[r].began, req[r].began)]
    /\ locks' = ReleaseLocks(r)
    /\ UNCHANGED <<transactions, nextId, now, scale>>

\* ---- GET /v1/wallets/{wallet_id} ----
get_wallet_request(r) ==
    /\ CanArrive(r)
    /\ \E w \in WalletIds : req' = [req EXCEPT ![r] = Entered(r, "get", w, 0)]
    /\ UNCHANGED <<wallets, transactions, locks, nextId, now, scale>>

\* the service without its "if not wallet" test: None is returned
get_wallet_read_unchecked(r) ==
    /\ req[r].pc = "entered"
    /\ req[r].op = "get"
    /\ LET w == req[r].wid IN
         IF w \notin DOMAIN wallets
         THEN /\ req' = [req EXCEPT ![r].pc = "read"]
              /\ UNCHANGED <<wallets, transactions, locks>>
         ELSE /\ get_by_uuid(r, w)
              /\ req' = [req EXCEPT ![r].pc = "read",
                                     ![r].snap = wallets[w].balance,
                                     ![r].created_at = wallets[w].created_at,
                                     ![r].updated_at = wallets[w].updated_at]
              /\ UNCHANGED <<wallets, transactions>>
    /\ UNCHANGED <<nextId, now, scale>>

\* a read that inserts the wallet it does not find, and commits it
get_wallet_read_or_create(r) ==
    /\ req[r].pc = "entered"
    /\ req[r].op = "get"
    /\ LET w == req[r].wid IN
         IF w \notin DOMAIN wallets
         THEN /\ wallets' = wallets @@ (w :> NewWallet(0, now))
              /\ req' = [req EXCEPT ![r].pc = "read"]
              /\ UNCHANGED <<transactions, locks>>
         ELSE /\ get_by_uuid(r, w)
              /\ req' = [req EXCEPT ![r].pc = "read",
                                     ![r].snap = wallets[w].balance,
                                     ![r].created_at = wallets[w].created_at,
                                     ![r].updated_at = wallets[w].updated_at]
              /\ UNCHANGED <<wallets, transactions>>
    /\ UNCHANGED <<nextId, now, scale>>

\* a read that neither waits for the row lock nor keeps to committed rows:
\* it sees the balance a session has flushed and not yet committed
get_wallet_read_dirty(r) ==
    /\ req[r].pc = "entered"
    /\ req[r].op = "get"
    /\ LET w == req[r].wid IN
         IF w \notin DOMAIN wallets
         THEN raise_exc(r, "WalletNotFound")
         ELSE /\ \E b \in {wallets[w].balance} \cup
                          {req[q].newbal : q \in {q \in Req : req[q].pc = "written"
                                                          /\ req[q].wid = w}} :
                    req' = [req EXCEPT ![r].pc = "read",
                                       ![r].snap = b,
                                       ![r].created_at = wallets[w].created_at,
                                       ![r].updated_at = wallets[w].updated_at]
              /\ UNCHANGED <<wallets, transactions, locks>>
    /\ UNCHANGED <<nextId, now, scale>>

\* WalletService.get_wallet, up to the read of the row
get_wallet_read(r) ==
    /\ req[r].pc = "entered"
    /\ req[r].op = "get"
    /\ LET w == req[r].wid IN
         IF w \notin DOMAIN wallets
         THEN raise_exc(r, "WalletNotFound")
         ELSE /\ get_by_uuid(r, w)
              /\ req' = [req EXCEPT ![r].pc = "read",
                                     ![r].snap = wallets[w].balance,
                                     ![r].created_at = wallets[w].created_at,
                                     ![r].updated_at = wallets[w].updated_at]
              /\ UNCHANGED <<wallets, transactions>>
    /\ UNCHANGED <<nextId, now, scale>>

\* a return that flushes the row it read as if it were changed: onupdate
\* sets updated_at
get_wallet_return_touch(r) ==
    /\ req[r].pc = "read"
    /\ req[r].op = "get"
    /\ wallets' = [wallets EXCEPT ![req[r].wid].updated_at = now]
    /\ req' = [req EXCEPT ![r] = WalletResponse(r, req[r].wid, req[r].snap,
                                                 req[r].created_at, req[r].updated_at)]
    /\ locks' = ReleaseLocks(r)
    /\ UNCHANGED <<transactions, nextId, now, scale>>

\* a return whose __aexit__ leaves the session open
get_wallet_return_keep_lock(r) ==
    /\ req[r].pc = "read"
    /\ req[r].op = "get"
    /\ req' = [req EXCEPT ![r] = WalletResponse(r, req[r].wid, req[r].snap,
                                                 req[r].created_at, req[r].updated_at)]
    /\ UNCHANGED <<wallets, transactions, locks, nextId, now, scale>>

\* the body of "async with uow" ends without commit: __aexit__ closes the
\* session, which ends its database transaction
get_wallet_return(r) ==
    /\ req[r].pc = "read"
    /\ req[r].op = "get"
    /\ req' = [req EXCEPT ![r] = WalletResponse(r, req[r].wid, req[r].snap,
                                                 req[r].created_at, req[r].updated_at)]
    /\ locks' = ReleaseLocks(r)
    /\ UNCHANGED <<wallets, transactions, nextId, now, scale>>

\* ---- POST /v1/wallets/{wallet_id}/operation ----
\* the mapper with its two classes exchanged
OperationFactory_make_swapped(kind) ==
    IF kind = "deposit" THEN "withdraw" ELSE "deposit"

\* OperationFactory.make: the strategy that handles a kind
OperationFactory_make(kind) ==
    IF kind = "deposit" THEN "deposit" ELSE "withdraw"

\* the payload used as it came: the wallet_id of the row is the one of the body
model_copy_none(body, wallet_id) == body

\* payload.model_copy(update={"wallet_id": wallet_id}): the wallet_id of the
\* row is the one of the path
model_copy(body, wallet_id) == wallet_id

\* an accepted operation: the strategy for its kind, the path's wallet id,
\* and the payload
Operation(r, kind, w, body, a) ==
    [Entered(r, OperationFactory_make(kind), w, a) EXCEPT !.kind = kind, !.body = body]

\* the body of a request names the wallet of its path
handle_operation_request(r) ==
    /\ CanArrive(r)
    /\ \E w \in WalletIds, a \in AmountInputs, kind \in OperationType :
         IF TransactionBaseSchema(a)
         THEN req' = [req EXCEPT ![r] = [Operation(r, kind, w, w, a) EXCEPT !.began = now]]
         ELSE req' = [req EXCEPT ![r] = Rejected(r, "operation", w, a)]
    /\ UNCHANGED <<wallets, transactions, locks, nextId, now, scale>>

\* the funds check left out
NotEnoughCredits_off(balance, amount) == FALSE

\* the funds check refusing a withdraw of the whole balance
NotEnoughCredits_strict(balance, amount) == balance <= amount

\* the funds check with its operands swapped
NotEnoughCredits_swapped(balance, amount) == amount < balance

\* the funds check of the withdraw strategy: TRUE when the withdraw is refused
NotEnoughCredits(balance, amount) == balance < amount

\* uow.transactions.create: the session flushes the changed wallet (UPDATE)
\* and inserts the transaction row; both columns are NUMERIC(19, 2) and both
\* check constraints are evaluated on the stored values
transactions_create(r) ==
    /\ req[r].pc = "mutated"
    /\ LET b == NUMERIC(req[r].newbal)
           a == NUMERIC(req[r].amount) IN
         IF non_negative_balance(b) /\ positive_amount(a)
         THEN /\ req' = [req EXCEPT ![r].pc = "written", ![r].newbal = b, ![r].txamt = a,
                                     ![r].body = model_copy(req[r].body, req[r].wid)]
              /\ UNCHANGED <<wallets, transactions, locks>>
         ELSE raise_exc(r, "IntegrityError")
    /\ UNCHANGED <<nextId, now, scale>>

\* a commit that makes the wallet UPDATE visible without the transaction row
uow_commit_wallet_only(r) ==
    /\ req[r].pc = "written"
    /\ wallets' = [wallets EXCEPT ![req[r].wid].balance = req[r].newbal,
                                  ![req[r].wid].updated_at = req[r].began]
    /\ req' = [req EXCEPT ![r] = Returned(r, req[r].wid, req[r].txamt)]
    /\ locks' = ReleaseLocks(r)
    /\ UNCHANGED <<transactions, nextId, now, scale>>

\* a commit whose row replaces the rows the wallet already has
uow_commit_replace(r) ==
    /\ req[r].pc = "written"
    /\ wallets' = [wallets EXCEPT ![req[r].wid].balance = req[r].newbal,
                                  ![req[r].wid].updated_at = req[r].began]
    /\ transactions' = Append(SelectSeq(transactions, LAMBDA t : t.wallet_id # req[r].wid),
            [wallet_id |-> req[r].body, amount |-> req[r].txamt, kind |-> req[r].kind])
    /\ req' = [req EXCEPT ![r] = Returned(r, req[r].wid, req[r].txamt)]
    /\ locks' = ReleaseLocks(r)
    /\ UNCHANGED <<nextId, now, scale>>

\* a commit whose UPDATE has no WHERE clause and writes every wallet
uow_commit_no_where(r) ==
    /\ req[r].pc = "written"
    /\ wallets' = [w \in DOMAIN wallets |->
                     [wallets[w] EXCEPT !.balance = req[r].newbal,
                                        !.updated_at = req[r].began]]
    /\ transactions' = Append(transactions,
            [wallet_id |-> req[r].body, amount |-> req[r].txamt, kind |-> req[r].kind])
    /\ req' = [req EXCEPT ![r] = Returned(r, req[r].wid, req[r].txamt)]
    /\ locks' = ReleaseLocks(r)
    /\ UNCHANGED <<nextId, now, scale>>

\* a commit that sends the INSERT of the transaction row a second time
uow_commit_twice(r) ==
    /\ req[r].pc = "written"
    /\ wallets' = [wallets EXCEPT ![req[r].wid].balance = req[r].newbal,
                                  ![req[r].wid].updated_at = req[r].began]
    /\ transactions' = Append(Append(transactions,
            [wallet_id |-> req[r].body, amount |-> req[r].txamt, kind |-> req[r].kind]),
            [wallet_id |-> req[r].body, amount |-> req[r].txamt, kind |-> req[r].kind])
    /\ req' = [req EXCEPT ![r] = Returned(r, req[r].wid, req[r].txamt)]
    /\ locks' = ReleaseLocks(r)
    /\ UNCHANGED <<nextId, now, scale>>

\* uow.commit: the wallet UPDATE and the transaction INSERT become visible
\* together and the row lock is released
uow_commit(r) ==
    /\ req[r].pc = "written"
    /\ wallets' = [wallets EXCEPT ![req[r].wid].balance = req[r].newbal,
                                  ![req[r].wid].updated_at = req[r].began]
    /\ transactions' = Append(transactions,
            [wallet_id |-> req[r].body, amount |-> req[r].txamt, kind |-> req[r].kind])
    /\ req' = [req EXCEPT ![r] = Returned(r, req[r].wid, req[r].txamt)]
    /\ locks' = ReleaseLocks(r)
    /\ UNCHANGED <<nextId, now, scale>>

\* now() of PostgreSQL is the start time of the session's transaction: BEGIN
\* is sent when the first statement is about to be executed, at some time
\* after the request arrived, and the lock-read that follows it may wait
BeginTimes(r) == req[r].began .. now

\* the deposit strategy without its "if not wallet" test
Deposit_execute_unchecked(r) ==
    /\ req[r].pc = "entered"
    /\ req[r].op = "deposit"
    /\ LET w == req[r].wid IN
         IF w \notin DOMAIN wallets
         THEN raise_exc(r, "AttributeError")
         ELSE /\ get_raw_model_by_uuid(r, w)
              /\ \E t \in BeginTimes(r) :
                   req' = [req EXCEPT ![r].pc = "mutated",
                                     ![r].began = t,
                                     ![r].snap = wallets[w].balance,
                                     ![r].newbal = wallets[w].balance + req[r].amount]
              /\ UNCHANGED <<wallets, transactions>>
    /\ UNCHANGED <<nextId, now, scale>>

\* DepositOperation.execute, up to the first write
Deposit_execute(r) ==
    /\ req[r].pc = "entered"
    /\ req[r].op = "deposit"
    /\ LET w == req[r].wid IN
         IF w \notin DOMAIN wallets
         THEN raise_exc(r, "WalletNotFound")
         ELSE /\ get_raw_model_by_uuid(r, w)
              /\ \E t \in BeginTimes(r) :
                   req' = [req EXCEPT ![r].pc = "mutated",
                                     ![r].began = t,
                                     ![r].snap = wallets[w].balance,
                                     ![r].newbal = wallets[w].balance + req[r].amount]
              /\ UNCHANGED <<wallets, transactions>>
    /\ UNCHANGED <<nextId, now, scale>>

Deposit_create(r) ==
    /\ req[r].op = "deposit"
    /\ transactions_create(r)

\* a deposit that commits as soon as the balance is changed, before or
\* after the transaction row is added to the session
Deposit_commit_early(r) ==
    /\ req[r].op = "deposit"
    /\ req[r].pc \in {"mutated", "written"}
    /\ wallets' = [wallets EXCEPT ![req[r].wid].balance = req[r].newbal,
                                  ![req[r].wid].updated_at = req[r].began]
    /\ transactions' = Append(transactions,
            [wallet_id |-> req[r].wid, amount |-> req[r].amount, kind |-> req[r].kind])
    /\ req' = [req EXCEPT ![r] = Returned(r, req[r].wid, req[r].amount)]
    /\ locks' = ReleaseLocks(r)
    /\ UNCHANGED <<nextId, now, scale>>

Deposit_commit(r) ==
    /\ req[r].op = "deposit"
    /\ uow_commit(r)

\* WithDrawOperation.execute, up to the first write
WithDraw_execute(r) ==
    /\ req[r].pc = "entered"
    /\ req[r].op = "withdraw"
    /\ LET w == req[r].wid IN
         IF w \notin DOMAIN wallets
         THEN raise_exc(r, "WalletNotFound")
         ELSE /\ get_raw_model_by_uuid(r, w)
              /\ IF NotEnoughCredits(wallets[w].balance, req[r].amount)
                 THEN req' = [req EXCEPT ![r] = Raising(r, "NotEnoughCredits")]
                 ELSE \E t \in BeginTimes(r) :
                        req' = [req EXCEPT ![r].pc = "mutated",
                                         ![r].began = t,
                                         ![r].snap = wallets[w].balance,
                                         ![r].newbal = wallets[w].balance - req[r].amount]
              /\ UNCHANGED <<wallets, transactions>>
    /\ UNCHANGED <<nextId, now, scale>>

WithDraw_create(r) ==
    /\ req[r].op = "withdraw"
    /\ transactions_create(r)

\* a withdraw whose session stays open after its commit and takes the row
\* lock again
WithDraw_commit_keep_lock(r) ==
    /\ req[r].op = "withdraw"
    /\ req[r].pc = "written"
    /\ wallets' = [wallets EXCEPT ![req[r].wid].balance = req[r].newbal,
                                  ![req[r].wid].updated_at = req[r].began]
    /\ transactions' = Append(transactions,
            [wallet_id |-> req[r].body, amount |-> req[r].txamt, kind |-> req[r].kind])
    /\ req' = [req EXCEPT ![r] = Returned(r, req[r].wid, req[r].txamt)]
    /\ UNCHANGED <<locks, nextId, now, scale>>

WithDraw_commit(r) ==
    /\ req[r].op = "withdraw"
    /\ uow_commit(r)

\* an await of an open Unit of Work raises instead of returning: the
\* connection is lost, the statement or the commit fails, or the request is
\* cancelled
storage_failure(r) ==
    /\ req[r].pc \in {"entered", "mutated", "written", "read"}
    /\ raise_exc(r, "StorageFailure")
    /\ UNCHANGED <<nextId, now, scale>>

Next ==
    \E r \in Req :
        \/ create_wallet_request(r)
        \/ create_wallet_insert(r)
        \/ create_wallet_commit(r)
        \/ get_wallet_request(r)
        \/ get_wallet_read(r)
        \/ get_wallet_return(r)
        \/ handle_operation_request(r)
        \/ Deposit_execute(r)
        \/ Deposit_create(r)
        \/ Deposit_commit(r)
        \/ WithDraw_execute(r)
        \/ WithDraw_create(r)
        \/ WithDraw_commit(r)
        \/ storage_failure(r)
        \/ UnitOfWork_aexit(r)

Spec == Init /\ [][Next]_vars

\* ---- K concurrent operations of one kind and one legal amount on one wallet ----
\* legal amounts: positive, scale 2
ScenarioAmounts == {Quantum, 2 * Quantum, 3 * Quantum}
ScenarioBalances == {b * Quantum : b \in 0 .. 4}

InitScenario(kind, B, A, K) ==
    /\ wallets = (1 :> NewWallet(B, 0))
    /\ transactions = << >>
    /\ locks = [w \in WalletIds |-> {}]
    /\ nextId = 2
    /\ now = 0
    /\ scale = 2
    /\ req = [r \in Req |-> IF r <= K THEN Operation(r, kind, 1, 1, A) ELSE IdleReq]

InitDeposits ==
    \E B \in ScenarioBalances, A \in ScenarioAmounts, K \in 1 .. MaxReq :
        InitScenario("deposit", B, A, K)

NextDeposits ==
    \E r \in Req :
        \/ Deposit_execute(r)
        \/ Deposit_create(r)
        \/ Deposit_commit(r)

SpecDeposits == InitDeposits /\ [][NextDeposits]_vars

InitWithDraws ==
    \E B \in ScenarioBalances, A \in ScenarioAmounts, K \in 1 .. MaxReq :
        /\ K * A > B
        /\ B >= A
        /\ InitScenario("withdraw", B, A, K)

NextWithDraws ==
    \E r \in Req :
        \/ WithDraw_execute(r)
        \/ WithDraw_create(r)
        \/ WithDraw_commit(r)
        \/ UnitOfWork_aexit(r)

SpecWithDraws == InitWithDraws /\ [][NextWithDraws]_vars

\* ---- requests on one wallet, any of which may be cancelled at any await ----
CancelKinds == {"deposit", "withdraw", "get"}

InitCancel ==
    \E B \in {0, Quantum}, K \in 1 .. MaxReq :
        \E kinds \in [1 .. K -> CancelKinds] :
            /\ wallets = (1 :> NewWallet(B, 0))
            /\ transactions = << >>
            /\ locks = [w \in WalletIds |-> {}]
            /\ nextId = 2
            /\ now = 0
            /\ scale = 2
            /\ req = [r \in Req |->
                        IF r <= K
                        THEN IF kinds[r] = "get"
                             THEN Entered(r, "get", 1, 0)
                             ELSE Operation(r, kinds[r], 1, 1, Quantum)
                        ELSE IdleReq]

\* the task of the request is cancelled (client timeout or disconnect):
\* CancelledError is raised at the await the coroutine is suspended in
request_cancelled(r) ==
    /\ req[r].pc \in {"entered", "mutated", "written", "read"}
    /\ raise_exc(r, "CancelledError")
    /\ UNCHANGED <<nextId, now, scale>>

\* the next statement of the coroutine of request r
RequestStep(r) ==
    \/ get_wallet_read(r)
    \/ get_wallet_return(r)
    \/ Deposit_execute(r)
    \/ Deposit_create(r)
    \/ Deposit_commit(r)
    \/ WithDraw_execute(r)
    \/ WithDraw_create(r)
    \/ WithDraw_commit(r)
    \/ UnitOfWork_aexit(r)

NextCancel ==
    \E r \in Req :
        \/ RequestStep(r)
        \/ request_cancelled(r)

\* the event loop runs every coroutine that can run, and the database answers
\* every statement that waits for nothing
SpecCancel ==
    /\ InitCancel
    /\ [][NextCancel]_vars
    /\ \A r \in Req : WF_vars(RequestStep(r))

\* ---- concurrent operations on several wallets ----
InitTwoWallets ==
    \E K \in 1 .. MaxReq :
        \E kinds \in [1 .. K -> OperationType], ws \in [1 .. K -> WalletIds] :
            /\ wallets = [w \in WalletIds |-> NewWallet(Quantum, 0)]
            /\ transactions = << >>
            /\ locks = [w \in WalletIds |-> {}]
            /\ nextId = MaxWallets + 1
            /\ now = 0
            /\ scale = 2
            /\ req = [r \in Req |->
                        IF r <= K THEN Operation(r, kinds[r], ws[r], ws[r], Quantum)
                                  ELSE IdleReq]

\* the next statement of the strategy of request r
OperationStep(r) ==
    \/ Deposit_execute(r)
    \/ Deposit_create(r)
    \/ Deposit_commit(r)
    \/ WithDraw_execute(r)
    \/ WithDraw_create(r)
    \/ WithDraw_commit(r)

NextTwoWallets ==
    \E r \in Req :
        \/ OperationStep(r)
        \/ UnitOfWork_aexit(r)

SpecTwoWallets == InitTwoWallets /\ [][NextTwoWallets]_vars

\* ---- concurrent operations of mixed kinds and amounts on one wallet ----
\* request r withdraws when r is odd and deposits when r is even, r * 0.01
MixedKind(r) == IF r % 2 = 1 THEN "withdraw" ELSE "deposit"
MixedAmount(r) == r * Quantum

InitMixed ==
    \E B \in ScenarioBalances, K \in 1 .. MaxReq :
        /\ wallets = (1 :> NewWallet(B, 0))
        /\ transactions = << >>
        /\ locks = [w \in WalletIds |-> {}]
        /\ nextId = 2
        /\ now = 0
        /\ scale = 2
        /\ req = [r \in Req |->
                    IF r <= K THEN Operation(r, MixedKind(r), 1, 1, MixedAmount(r))
                              ELSE IdleReq]

SpecMixed == InitMixed /\ [][NextTwoWallets]_vars

\* one request executed alone on a wallet of balance st.balance with rows
\* st.rows: the strategy from its lock-read to its commit or its exception
SerialApply(st, r) ==
    LET kind == MixedKind(r)
        a == MixedAmount(r)
        b == IF kind = "deposit" THEN NUMERIC(st.balance + a)
                                 ELSE NUMERIC(st.balance - a)
    IN  IF kind = "withdraw" /\ NotEnoughCredits(st.balance, a)
        THEN [st EXCEPT !.outcome = @ @@ (r :> "NotEnoughCredits")]
        ELSE IF ~(non_negative_balance(b) /\ positive_amount(NUMERIC(a)))
        THEN [st EXCEPT !.outcome = @ @@ (r :> "IntegrityError")]
        ELSE [balance |-> b,
              rows |-> Append(st.rows,
                         [wallet_id |-> 1, amount |-> NUMERIC(a), kind |-> kind]),
              outcome |-> st.outcome @@ (r :> "ok")]

\* the requests of order executed one at a time, each to its end
RECURSIVE SerialRun(_, _)
SerialRun(st, order) ==
    IF order = << >> THEN st
    ELSE SerialRun(SerialApply(st, Head(order)), Tail(order))

\* the orders in which the requests of S can take the lock
Orders(S) ==
    {o \in [1 .. Cardinality(S) -> S] : \A i, j \in DOMAIN o : i # j => o[i] # o[j]}

\* ---- every kind of request, every coroutine scheduled fairly ----
\* wallet 1 exists; each request is a creation, a read of some id, or a
\* deposit or a withdraw on wallet 1
InitFair ==
    \E B \in {0, Quantum}, K \in 1 .. MaxReq :
        \E rs \in [1 .. K -> {Entered(0, "create", 0, Quantum)}
                           \cup {Entered(0, "get", w, 0) : w \in WalletIds}
                           \cup {Operation(0, kind, 1, 1, Quantum) : kind \in OperationType}] :
            /\ wallets = (1 :> NewWallet(B, 0))
            /\ transactions = << >>
            /\ locks = [w \in WalletIds |-> {}]
            /\ nextId = 2
            /\ now = 0
            /\ scale = 2
            /\ req = [r \in Req |-> IF r <= K THEN rs[r] ELSE IdleReq]

\* the next statement of the coroutine of request r, of any endpoint
EndpointStep(r) ==
    \/ create_wallet_insert(r)
    \/ create_wallet_commit(r)
    \/ RequestStep(r)

NextFair == \E r \in Req : EndpointStep(r)

\* the event loop runs every coroutine that can run; the database grants a
\* free row lock to a session that waits for it
SpecFair ==
    /\ InitFair
    /\ [][NextFair]_vars
    /\ \A r \in Req : WF_vars(EndpointStep(r))

\* ---- creations alone, on either schema ----
\* 123.4567: a balance with more than two fractional digits
high_precision_balance == 1234567

CreateBodies ==
    {<<>>, <<0>>, <<Quantum \div 2>>, <<Quantum>>, <<high_precision_balance>>}

InitCreates ==
    \E K \in 1 .. MaxWallets, sc \in Scales :
        \E bodies \in [1 .. K -> {b \in CreateBodies : WalletCreateSchemaValid(b)}] :
            /\ wallets = << >>
            /\ transactions = << >>
            /\ locks = [w \in WalletIds |-> {}]
            /\ nextId = 1
            /\ now = 0
            /\ scale = sc
            /\ req = [r \in Req |->
                        IF r <= K
                        THEN Entered(r, "create", 0, WalletCreateSchemaBalance(bodies[r]))
                        ELSE IdleReq]

NextCreates ==
    \E r \in Req :
        \/ create_wallet_insert(r)
        \/ create_wallet_commit(r)

SpecCreates == InitCreates /\ [][NextCreates]_vars

\* ---- creations, reads and deposits while the server's clock advances ----
MaxTime == 2

\* time passes
tick ==
    /\ now < MaxTime
    /\ now' = now + 1
    /\ UNCHANGED <<wallets, transactions, locks, nextId, scale, req>>

\* wallet 1 was created at time 0; each request is a creation, a read of
\* some id, or a deposit to wallet 1
InitClock ==
    \E K \in 1 .. MaxReq :
        \E rs \in [1 .. K -> {Entered(0, "create", 0, Quantum \div 2)}
                           \cup {Entered(0, "get", w, 0) : w \in WalletIds}
                           \cup {Operation(0, "deposit", 1, 1, Quantum)}] :
            /\ wallets = (1 :> NewWallet(Quantum, 0))
            /\ transactions = << >>
            /\ locks = [w \in WalletIds |-> {}]
            /\ nextId = 2
            /\ now = 0
            /\ scale = 2
            /\ req = [r \in Req |-> IF r <= K THEN rs[r] ELSE IdleReq]

NextClock ==
    \/ tick
    \/ \E r \in Req :
        \/ create_wallet_insert(r)
        \/ create_wallet_commit(r)
        \/ get_wallet_read(r)
        \/ get_wallet_return(r)
        \/ Deposit_execute(r)
        \/ Deposit_create(r)
        \/ Deposit_commit(r)
        \/ UnitOfWork_aexit(r)

SpecClock == InitClock /\ [][NextClock]_vars

\* ---- operations whose body names another wallet than their path ----
MaxMismatch == 2

\* the wallet ids a body can name besides the path's: the other wallets and
\* an id with no wallet
OtherIds(w) == (WalletIds \ {w}) \cup {MaxWallets + 1}

InitMismatch ==
    \E K \in 1 .. MaxMismatch :
        \E rs \in [1 .. K -> UNION {{Operation(0, kind, w, b, Quantum) :
                                        kind \in OperationType, b \in OtherIds(w)} :
                                     w \in WalletIds}] :
            /\ wallets = [w \in WalletIds |-> NewWallet(Quantum, 0)]
            /\ transactions = << >>
            /\ locks = [w \in WalletIds |-> {}]
            /\ nextId = MaxWallets + 1
            /\ now = 0
            /\ scale = 2
            /\ req = [r \in Req |-> IF r <= K THEN rs[r] ELSE IdleReq]

SpecMismatch == InitMismatch /\ [][NextTwoWallets]_vars

Creating(r) == req[r].op = "create" /\ req[r].pc = "written"
Created(r) == req[r].op = "create" /\ req[r].pc = "done" /\ req[r].result = "ok"

Arrived == {r \in Req : req[r].pc # "idle"}
AllDone == \A r \in Req : req[r].pc \in {"idle", "done"}
Succeeded == {r \in Req : req[r].pc = "done" /\ req[r].result = "ok"}
Mutating(r) == req[r].op \in OperationType
OpenWrite(r) == Mutating(r) /\ req[r].pc \in {"mutated", "written"}

\* C1: in every committed state, every wallet's balance is its initial balance
\* plus the amounts of its deposit rows minus the amounts of its withdraw rows.
C1_LedgerInvariant ==
    \A w \in DOMAIN wallets :
        wallets[w].balance = wallets[w].initial + LedgerSum(transactions, w)

\* C2: every wallet balance is >= 0: the committed balance of every row, and
\* the balance a strategy has computed and is about to write.
C2_NonNegative ==
    /\ \A w \in DOMAIN wallets : wallets[w].balance >= 0
    /\ \A r \in Req : OpenWrite(r) => req[r].newbal >= 0

\* a withdraw has emptied a wallet
C2_Witness ==
    \E w \in DOMAIN wallets :
        /\ wallets[w].balance = 0
        /\ wallets[w].initial > 0
        /\ \E i \in DOMAIN transactions :
             transactions[i].wallet_id = w /\ transactions[i].kind = "withdraw"

\* C3: K concurrent deposits of A on a wallet of balance B: once all have
\* finished, all K succeeded, the balance is B + K*A and the wallet has K rows.
C3_NoLostDeposit ==
    AllDone =>
        /\ Succeeded = Arrived
        /\ \A r \in Arrived :
             wallets[1].balance = wallets[1].initial + Cardinality(Arrived) * req[r].amount
        /\ Len(RowsOf(1)) = Cardinality(Arrived)

\* three deposits have all finished
C3_Witness ==
    /\ AllDone
    /\ Cardinality(Arrived) >= 3
    /\ Len(transactions) >= 3

\* C4: K concurrent withdrawals of A on a wallet of balance B, K*A > B >= A:
\* once all have finished, exactly B div A succeeded, the others failed with
\* NotEnoughCredits, and the balance is B - (B div A) * A.
C4_WithDrawsUpToBalance ==
    AllDone =>
        /\ Succeeded # {}
        /\ \A s \in Succeeded :
            LET B == wallets[1].initial
                A == req[s].amount IN
            /\ Cardinality(Succeeded) = B \div A
            /\ \A r \in Arrived \ Succeeded : req[r].result = "NotEnoughCredits"
            /\ wallets[1].balance = B - (B \div A) * A
            /\ wallets[1].balance >= 0

\* some withdrawals succeeded and some were refused
C4_Witness ==
    /\ AllDone
    /\ Succeeded # {}
    /\ \E r \in Arrived : req[r].result = "NotEnoughCredits"
    /\ Len(transactions) = wallets[1].initial \div transactions[1].amount

\* C5: a strategy that has computed a new balance computed it from the
\* balance that is still the committed one, and no two strategies have an
\* uncommitted balance for the same wallet at the same time.
C5_ReadsLatestCommit ==
    /\ \A r \in Req : OpenWrite(r) => req[r].snap = wallets[req[r].wid].balance
    /\ \A r, q \in Req :
         (r # q /\ OpenWrite(r) /\ OpenWrite(q)) => req[r].wid # req[q].wid

\* a strategy has read a balance that an earlier operation committed
C5_Witness ==
    \E r \in Req :
        /\ OpenWrite(r)
        /\ req[r].snap # wallets[req[r].wid].initial
        /\ Len(RowsOf(req[r].wid)) >= 1

C6_Locked ==
    /\ \A w \in WalletIds : Cardinality(locks[w]) <= 1
    /\ \A r \in Req : OpenWrite(r) => r \in locks[req[r].wid]

C6_Step ==
    \A w \in DOMAIN wallets :
        wallets'[w].balance # wallets[w].balance =>
            \E r \in Req :
                /\ OpenWrite(r)
                /\ req[r].wid = w
                /\ locks[w] = {r}
                /\ req'[r].pc = "done"

\* C6: a wallet's row lock has at most one holder; a strategy with an
\* uncommitted balance holds the lock of its wallet; and every change of a
\* committed balance is the commit of such a strategy.
C6_LockedWrites == [][C6_Locked' /\ C6_Step]_vars

\* one strategy holds the lock with its write pending while another request
\* on the same wallet waits
C6_Witness ==
    \E r, q \in Req :
        /\ OpenWrite(r)
        /\ locks[req[r].wid] = {r}
        /\ req[q].pc = "entered"
        /\ Mutating(q)
        /\ req[q].wid = req[r].wid

Stepped(r) == req'[r] # req[r]

\* C7: a withdraw of more than the balance it finds under the lock raises
\* NotEnoughCredits and ends with that error; neither step changes a wallet
\* or the transaction rows.
C7_WithDrawRefused ==
    [][\A r \in Req :
        /\ ( /\ req[r].pc = "entered"
             /\ req[r].op = "withdraw"
             /\ req[r].wid \in DOMAIN wallets
             /\ req[r].amount > wallets[req[r].wid].balance
             /\ Stepped(r)
             /\ req'[r].result # "StorageFailure" )
           => ( /\ req'[r].pc = "raising"
                /\ req'[r].result = "NotEnoughCredits"
                /\ UNCHANGED <<wallets, transactions>> )
        /\ ( /\ req[r].pc = "raising"
             /\ req[r].result = "NotEnoughCredits"
             /\ Stepped(r) )
           => ( /\ req'[r].pc = "done"
                /\ req'[r].result = "NotEnoughCredits"
                /\ UNCHANGED <<wallets, transactions>> )
    ]_vars

\* a withdraw was refused: the wallet has its initial balance and no row
C7_Witness ==
    /\ \E r \in Req : req[r].pc = "done" /\ req[r].result = "NotEnoughCredits"
    /\ transactions = << >>
    /\ \E w \in DOMAIN wallets :
         wallets[w].balance = Quantum /\ wallets[w].initial = Quantum

\* C8: a deposit or withdraw on an id with no wallet row raises
\* WalletNotFound and ends with that error; no wallet row, no transaction row
\* and no lock is created.
C8_WalletNotFound ==
    [][\A r \in Req :
        /\ ( /\ req[r].pc = "entered"
             /\ Mutating(r)
             /\ req[r].wid \notin DOMAIN wallets
             /\ Stepped(r)
             /\ req'[r].result # "StorageFailure" )
           => ( /\ req'[r].pc = "raising"
                /\ req'[r].result = "WalletNotFound"
                /\ UNCHANGED <<wallets, transactions, locks, nextId>> )
        /\ ( /\ req[r].pc = "raising"
             /\ req[r].result = "WalletNotFound"
             /\ Stepped(r) )
           => ( /\ req'[r].pc = "done"
                /\ req'[r].result = "WalletNotFound"
                /\ UNCHANGED <<wallets, transactions, locks, nextId>> )
    ]_vars

\* an operation found no wallet: the tables are still empty
C8_Witness ==
    /\ \E r \in Req :
         req[r].pc = "raising" /\ Mutating(r) /\ req[r].result = "WalletNotFound"
    /\ wallets = << >>
    /\ transactions = << >>

\* C9: the balance of an existing wallet changes only in a step that appends
\* one row of that wallet, and a row is appended only in a step that sets the
\* wallet's balance to the balance the same Unit of Work computed.
C9_AtomicCommit ==
    [][ /\ transactions' # transactions =>
             \E r \in Req :
                 /\ req[r].pc = "written"
                 /\ Mutating(r)
                 /\ req'[r].pc = "done"
                 /\ transactions' = Append(transactions,
                        [wallet_id |-> req[r].wid, amount |-> req[r].txamt,
                         kind |-> req[r].op])
                 /\ wallets' = [wallets EXCEPT ![req[r].wid].balance = req[r].newbal]
        /\ \A w \in DOMAIN wallets :
             wallets'[w].balance # wallets[w].balance =>
                 /\ Len(transactions') = Len(transactions) + 1
                 /\ SubSeq(transactions', 1, Len(transactions)) = transactions
                 /\ transactions'[Len(transactions')].wallet_id = w
    ]_vars

\* an operation has committed: a row and a changed balance
C9_Witness ==
    \E i \in DOMAIN transactions :
        wallets[transactions[i].wallet_id].balance
            # wallets[transactions[i].wallet_id].initial

\* C10: a step in which a Unit of Work raises, or ends with an error, changes
\* no wallet and no transaction row, and a request that has ended with an
\* error holds no row lock.
C10_RollbackOnException ==
    [][\A r \in Req :
        /\ ( /\ Stepped(r)
             /\ req'[r].pc \in {"raising", "done"}
             /\ req'[r].result # "ok" )
           => UNCHANGED <<wallets, transactions>>
        /\ ( /\ req'[r].pc = "done"
             /\ req'[r].result # "ok" )
           => \A w \in WalletIds : r \notin locks'[w]
    ]_vars

\* a deposit raised at the insert, with the lock held and the balance
\* changed in its session, and was rolled back
C10_Witness ==
    /\ \E r \in Req : req[r].pc = "done" /\ req[r].result = "IntegrityError"
    /\ \A w \in WalletIds : locks[w] = {}
    /\ transactions = << >>
    /\ \E w \in DOMAIN wallets : wallets[w].balance = wallets[w].initial

\* C11: a Unit of Work that ends normally without commit persists nothing:
\* no step of a getWallet request changes a wallet or a transaction row, and
\* the tables change only in the commit step of a request that has written.
C11_NoCommitNoChange ==
    [][ /\ \A r \in Req :
             (req[r].op = "get" /\ Stepped(r)) => UNCHANGED <<wallets, transactions>>
        /\ (<<wallets, transactions>>' # <<wallets, transactions>>) =>
             \E r \in Req :
                 /\ req[r].pc = "written"
                 /\ req'[r].pc = "done"
                 /\ req'[r].result = "ok"
    ]_vars

\* a getWallet has returned the row, which is as it was created
C11_Witness ==
    \E r \in Req :
        /\ req[r].pc = "done"
        /\ req[r].op = "get"
        /\ req[r].result = "ok"
        /\ wallets[req[r].wid].balance = req[r].amount
        /\ wallets[req[r].wid].balance = wallets[req[r].wid].initial
        /\ transactions = << >>

\* the Unit of Work of a request is open from its first statement to the end
\* of __aexit__ or of commit
UowOpen(r) == req[r].pc \in {"mutated", "written", "read", "raising"}

\* C12: a row lock is held only by a request whose Unit of Work is open; a
\* request that has not started or has finished (by commit, by a normal exit,
\* by rollback or by an error) holds no lock.
C12_LockOnlyWhileOpen ==
    \A w \in WalletIds : \A r \in locks[w] : UowOpen(r)

\* a getWallet has returned and a withdraw was refused, and no lock is held
C12_Witness ==
    /\ \E r \in Req : req[r].pc = "done" /\ req[r].op = "get" /\ req[r].result = "ok"
    /\ \E r \in Req : req[r].pc = "done" /\ req[r].result = "NotEnoughCredits"
    /\ \A w \in WalletIds : locks[w] = {}

\* C13: a request cancelled while its Unit of Work is open changes no wallet
\* and no transaction row and ends holding no lock; a lock that is held is
\* eventually free, and a request that waits at its lock-read eventually
\* gets past it.
C13_CancelReleases ==
    /\ [][\A r \in Req :
            (Stepped(r) /\ req'[r].result = "CancelledError")
                => UNCHANGED <<wallets, transactions>>]_vars
    /\ \A r \in Req :
         (req[r].pc = "raising" /\ req[r].result = "CancelledError")
            ~> ( /\ req[r].pc = "done"
                 /\ req[r].result = "CancelledError"
                 /\ \A w \in WalletIds : r \notin locks[w] )
    /\ \A w \in WalletIds : (locks[w] # {}) ~> (locks[w] = {})
    /\ \A r \in Req : (req[r].pc = "entered") ~> (req[r].pc # "entered")

\* a request was cancelled while it held the lock, before its __aexit__ has
\* run, and another request waits for the lock
C13_Witness ==
    \E r, q \in Req :
        /\ req[r].pc = "raising"
        /\ req[r].result = "CancelledError"
        /\ r \in locks[1]
        /\ req[q].pc = "entered"
        /\ req[q].wid = 1

\* C14: a deposit or withdraw that has not committed yet can take its next
\* step whenever no other request holds the lock of its own wallet, whatever
\* locks are held or waited for on other wallets.
C14_NoCrossWalletBlocking ==
    \A r \in Req :
        ( /\ Mutating(r)
          /\ req[r].pc \in {"entered", "mutated", "written"}
          /\ locks[req[r].wid] \subseteq {r} )
        => ENABLED OperationStep(r)

\* one request holds the lock of a wallet, another waits for it, and a third
\* has run from its lock-read to its insert on a different wallet
C14_Witness ==
    \E r, p, q \in Req :
        /\ OpenWrite(r)
        /\ locks[req[r].wid] = {r}
        /\ Mutating(p)
        /\ req[p].pc = "entered"
        /\ req[p].wid = req[r].wid
        /\ req[q].pc = "written"
        /\ req[q].wid # req[r].wid
        /\ locks[req[q].wid] = {q}

\* C15: getWallet is a plain read: no getWallet request ever holds a row
\* lock, and a getWallet on an existing wallet can read at once, whoever
\* holds the lock of that wallet.
C15_GetWalletPlainRead ==
    /\ \A w \in WalletIds : \A r \in locks[w] : req[r].op # "get"
    /\ \A r \in Req :
         ( /\ req[r].pc = "entered"
           /\ req[r].op = "get"
           /\ req[r].wid \in DOMAIN wallets )
         => ENABLED get_wallet_read(r)

\* C16: an operation whose amount is zero or negative is rejected by
\* validation: no strategy is entered, and no Unit of Work is opened, with an
\* amount that is not positive.
C16_NonPositiveRejected ==
    \A r \in Req :
        (Mutating(r) /\ req[r].pc \in {"entered", "mutated", "written"})
            => req[r].amount > 0

\* C17: a deposit that validation accepted, on an existing wallet, succeeds:
\* once it holds the lock, each of its steps is its next successful step
\* (the insert, then the commit with result ok), unless the storage fails.
C17_DepositSucceeds ==
    [][\A r \in Req :
        ( /\ req[r].op = "deposit"
          /\ req[r].pc \in {"mutated", "written"}
          /\ Stepped(r)
          /\ req'[r].result # "StorageFailure" )
        => \/ req[r].pc = "mutated" /\ req'[r].pc = "written"
           \/ req[r].pc = "written" /\ req'[r].pc = "done" /\ req'[r].result = "ok"
    ]_vars

StorageErrors == {"StorageFailure", "IntegrityError"}

\* C18: a storage failure inside an operation (at any statement, at the
\* insert's constraints, or at commit) changes no wallet and adds no row;
\* the Unit of Work then ends the request with that same failure and without
\* its lock, and a request that has ended is not run again.
C18_StorageFailureRollsBack ==
    [][\A r \in Req :
        /\ ( /\ Mutating(r)
             /\ Stepped(r)
             /\ req'[r].result \in StorageErrors )
           => ( /\ UNCHANGED <<wallets, transactions>>
                /\ req'[r].pc \in {"raising", "done"} )
        /\ ( /\ Mutating(r)
             /\ req[r].pc = "raising"
             /\ req[r].result \in StorageErrors
             /\ Stepped(r) )
           => ( /\ req'[r].pc = "done"
                /\ req'[r].result = req[r].result
                /\ \A w \in WalletIds : r \notin locks'[w]
                /\ UNCHANGED <<wallets, transactions>> )
        /\ req[r].pc = "done" => ~Stepped(r)
    ]_vars

\* an operation failed in the storage while it held the lock: the wallet has
\* its initial balance and no row
C18_Witness ==
    \E r \in Req : \E w \in DOMAIN wallets :
        /\ Mutating(r)
        /\ req[r].pc = "raising"
        /\ req[r].result = "StorageFailure"
        /\ r \in locks[w]
        /\ wallets[w].balance = wallets[w].initial
        /\ transactions = << >>

AppendOnly ==
    /\ Len(transactions') >= Len(transactions)
    /\ SubSeq(transactions', 1, Len(transactions)) = transactions

C20_PositiveAmountAndKind ==
    \A i \in DOMAIN transactions :
        /\ transactions[i].amount > 0
        /\ transactions[i].kind \in OperationType

\* a wallet has a deposit row and a withdraw row
C20_Witness ==
    \E i, j \in DOMAIN transactions :
        /\ transactions[i].kind = "deposit"
        /\ transactions[j].kind = "withdraw"
        /\ transactions[i].wallet_id = transactions[j].wallet_id

\* C21: createWallet stores the balance of its body (0.00 when absent) as
\* given, under a new id, and adds one wallet row and no transaction row.
C21_CreatesBalanceAsGiven ==
    /\ \A r \in Req : Creating(r) => req[r].newbal = req[r].amount
    /\ \A r \in Req : Created(r) =>
         req[r].wid \in DOMAIN wallets /\ wallets[req[r].wid].balance = req[r].amount
    /\ Cardinality(DOMAIN wallets) = Cardinality({r \in Req : Created(r)})
    /\ transactions = << >>

\* C21, amended: createWallet stores the balance of its body (0.00 when
\* absent) rounded to the scale of the balance column, under an id no other
\* wallet has; it returns the stored row; each creation adds one wallet row
\* and no transaction row.
C21_CreatesRoundedBalance ==
    /\ \A r \in Req : Creating(r) =>
         /\ req[r].newbal = NUMERIC(req[r].amount)
         /\ req[r].wid \notin DOMAIN wallets
    /\ \A r \in Req : Created(r) =>
         /\ req[r].wid \in DOMAIN wallets
         /\ wallets[req[r].wid].balance = req[r].amount
         /\ wallets[req[r].wid].initial = req[r].amount
    /\ \A r, q \in Req :
         (r # q /\ (Creating(r) \/ Created(r)) /\ (Creating(q) \/ Created(q)))
            => req[r].wid # req[q].wid
    /\ Cardinality(DOMAIN wallets) = Cardinality({r \in Req : Created(r)})
    /\ transactions = << >>

\* two wallets were created on the scale-2 schema, one from an absent or zero
\* balance and one whose balance 0.005 was stored as 0.01
C21_Witness ==
    /\ scale = 2
    /\ \E r, q \in Req :
         /\ Created(r) /\ wallets[req[r].wid].balance = 0
         /\ Created(q) /\ wallets[req[q].wid].balance = Quantum
    /\ \A r \in Req : Created(r) \/ req[r].pc = "idle"

\* C22: a createWallet whose balance is negative ends with ValidationError in
\* the step it arrives in, which changes no table, takes no id and no lock;
\* no creation is ever running with a negative balance.
C22_NegativeBalanceRejected ==
    [][\A r \in Req :
        /\ (req[r].pc = "idle" /\ req'[r].op = "create" /\ req'[r].pc = "done")
           => ( /\ req'[r].result = "ValidationError"
                /\ UNCHANGED <<wallets, transactions, locks, nextId>> )
        /\ (req'[r].op = "create" /\ req'[r].pc \in {"entered", "written"})
           => req'[r].amount >= 0
    ]_vars

\* a createWallet was rejected and nothing else has happened
C22_Witness ==
    /\ req[1].op = "create"
    /\ req[1].pc = "done"
    /\ req[1].result = "ValidationError"
    /\ wallets = << >>
    /\ nextId = 1
    /\ \A r \in Req \ {1} : req[r].pc = "idle"

\* C23: a getWallet on an id with no wallet row raises WalletNotFound and
\* ends with that error, changing no table, lock or id; a getWallet on an id
\* with a wallet row reads it; so a getWallet returns a row exactly for the
\* ids of created wallets.
C23_GetWalletNotFound ==
    [][\A r \in Req :
        /\ ( /\ req[r].op = "get"
             /\ req[r].pc = "entered"
             /\ Stepped(r)
             /\ req'[r].result # "StorageFailure" )
           => IF req[r].wid \in DOMAIN wallets
              THEN req'[r].pc = "read"
              ELSE /\ req'[r].pc = "raising"
                   /\ req'[r].result = "WalletNotFound"
                   /\ UNCHANGED <<wallets, transactions, locks, nextId>>
        /\ ( /\ req[r].op = "get"
             /\ req[r].pc = "raising"
             /\ req[r].result = "WalletNotFound"
             /\ Stepped(r) )
           => ( /\ req'[r].pc = "done"
                /\ req'[r].result = "WalletNotFound"
                /\ UNCHANGED <<wallets, transactions, locks, nextId>> )
        /\ (req'[r].op = "get" /\ req'[r].pc = "done" /\ req'[r].result = "ok")
           => req'[r].wid \in DOMAIN wallets'
    ]_vars

\* a getWallet of id 2 failed, then wallet 2 was created, then a getWallet
\* of id 2 returned it
C23_Witness ==
    \E f, c, g \in Req :
        /\ req[f].pc = "done" /\ req[f].result = "WalletNotFound"
        /\ Created(c) /\ req[c].wid = 2
        /\ req[g].op = "get" /\ req[g].pc = "done" /\ req[g].result = "ok"
        /\ req[g].wid = 2
        /\ req[g].snap = 0 /\ req[g].amount = wallets[2].balance

GotWallet(r) == req[r].op = "get" /\ req[r].pc = "done" /\ req[r].result = "ok"

\* C24: a getWallet of a created wallet on which no operation has committed
\* returns the id, the balance and the created_at that createWallet
\* returned.
C24_CreateGetRoundTrip ==
    \A c, g \in Req :
        ( /\ Created(c)
          /\ GotWallet(g)
          /\ req[g].wid = req[c].wid
          /\ RowsOf(req[c].wid) = << >> )
        => ( /\ req[g].amount = req[c].amount
             /\ req[g].created_at = req[c].created_at )

\* a wallet created at time 1 from the balance 0.005 was read back
C24_Witness ==
    \E c, g \in Req :
        /\ Created(c)
        /\ req[c].created_at = 1
        /\ req[c].amount = Quantum
        /\ GotWallet(g)
        /\ req[g].wid = req[c].wid
        /\ now = MaxTime

\* what a getWallet would return for the committed row of wallet w
RowView(w) ==
    <<wallets[w].balance, wallets[w].created_at, wallets[w].updated_at>>

\* the responses of two getWallet calls on a wallet with no committed
\* operation are the same
UnmutatedReadsAgree ==
    \A g, h \in Req :
        ( /\ GotWallet(g)
          /\ GotWallet(h)
          /\ req[g].wid = req[h].wid
          /\ RowsOf(req[g].wid) = << >> )
        => req[g] = req[h]

\* C25: a getWallet reads the committed row and returns what it read; no
\* step of a getWallet changes a wallet row; and a wallet row changes only
\* in the commit of an operation on that wallet. So getWallet calls with no
\* committed mutation of the wallet in between return the same balance,
\* created_at and updated_at.
C25_ReadIdempotent ==
    [][ /\ \A r \in Req :
             /\ (req[r].op = "get" /\ Stepped(r)) => wallets' = wallets
             /\ (req[r].op = "get" /\ req[r].pc = "entered" /\ req'[r].pc = "read")
                => <<req'[r].snap, req'[r].created_at, req'[r].updated_at>>
                       = RowView(req[r].wid)
             /\ (req[r].op = "get" /\ req[r].pc = "read" /\ req'[r].pc = "done")
                => <<req'[r].amount, req'[r].created_at, req'[r].updated_at>>
                       = <<req[r].snap, req[r].created_at, req[r].updated_at>>
        /\ \A w \in DOMAIN wallets :
             wallets'[w] # wallets[w] =>
                 \E r \in Req :
                     /\ Mutating(r)
                     /\ req[r].wid = w
                     /\ req[r].pc = "written"
                     /\ req'[r].pc = "done"
                     /\ req'[r].result = "ok"
        /\ UnmutatedReadsAgree'
    ]_vars

\* two getWallet calls after a deposit committed at time 1 returned the same
\* balance and timestamps
C25_Witness ==
    \E g, h \in Req :
        /\ g # h
        /\ GotWallet(g)
        /\ GotWallet(h)
        /\ req[g].wid = 1
        /\ req[g] = req[h]
        /\ req[g].updated_at = 1
        /\ req[g].amount = 2 * Quantum

\* C26: an operation locks and changes only the wallet of its path, and its
\* row carries the path's wallet id, whatever wallet its body names: a
\* request takes no lock but its path wallet's, its commit appends one row
\* of the path wallet and changes no other wallet, and every wallet's
\* balance is its initial balance plus the sum of its own rows.
C26_PathWalletOnly ==
    [][ /\ \A r \in Req : \A w \in WalletIds :
             (r \in locks'[w] /\ r \notin locks[w]) => w = req[r].wid
        /\ \A r \in Req :
             (Mutating(r) /\ req[r].pc = "written" /\ req'[r].pc = "done")
                => /\ Len(transactions') = Len(transactions) + 1
                   /\ transactions'[Len(transactions')].wallet_id = req[r].wid
                   /\ \A w \in DOMAIN wallets : w # req[r].wid => wallets'[w] = wallets[w]
        /\ \A w \in DOMAIN wallets' :
             wallets'[w].balance = wallets'[w].initial + LedgerSum(transactions', w)
    ]_vars

\* an operation whose body names another existing wallet has committed, and
\* a second one holds the lock of its path wallet while the wallet its body
\* names is unlocked and unchanged
C26_Witness ==
    /\ transactions # << >>
    /\ \E r \in Req :
         /\ req[r].pc = "mutated"
         /\ req[r].body \in DOMAIN wallets
         /\ req[r].body # req[r].wid
         /\ locks[req[r].wid] = {r}
         /\ locks[req[r].body] = {}
         /\ wallets[req[r].body].balance = wallets[req[r].body].initial

\* C27: the operation selector gives kind deposit the deposit strategy and
\* kind withdraw the withdraw strategy, for every request of that kind, and
\* selecting changes no table, lock or id; the strategy selected adds the
\* amount for a deposit and subtracts it for a withdraw.
C27_SelectorByKind ==
    [][\A r \in Req :
        /\ (req[r].pc = "idle" /\ req'[r].kind \in OperationType)
           => ( /\ req'[r].op = req'[r].kind
                /\ UNCHANGED <<wallets, transactions, locks, nextId>> )
        /\ req'[r].kind \in OperationType => req'[r].op = req'[r].kind
        /\ (req'[r].pc = "mutated" /\ req'[r].kind = "deposit")
           => req'[r].newbal = req'[r].snap + req'[r].amount
        /\ (req'[r].pc = "mutated" /\ req'[r].kind = "withdraw")
           => req'[r].newbal = req'[r].snap - req'[r].amount
    ]_vars

\* a withdraw has committed through the withdraw strategy and a deposit is
\* inside the deposit strategy
C27_Witness ==
    \E r, q \in Req :
        /\ req[r].pc = "mutated" /\ req[r].kind = "deposit" /\ req[r].amount = Quantum
        /\ req[r].newbal = Quantum
        /\ req[q].pc = "done" /\ req[q].op = "withdraw" /\ req[q].result = "ok"
        /\ \E i \in DOMAIN transactions : transactions[i].kind = "withdraw"

\* C28: money is stored with scale 2: a balance written to the column is
\* stored rounded to two decimal places, and every stored balance and every
\* stored amount is a multiple of 0.01.
C28_StoredWithScale2 ==
    /\ \A r \in Req : Creating(r) => req[r].newbal = Round2(req[r].amount)
    /\ \A w \in DOMAIN wallets : wallets[w].balance % Quantum = 0
    /\ \A i \in DOMAIN transactions : transactions[i].amount % Quantum = 0

\* the stored balance and the transaction rows of wallet w
Ledger(w) == <<wallets[w].balance, RowsOf(w)>>

\* request r commits a deposit or a withdraw on wallet w in this step
CommitsOn(r, w) ==
    /\ req[r].op \in OperationType
    /\ req[r].wid = w
    /\ req[r].pc = "written"
    /\ req'[r].pc = "done"
    /\ req'[r].result = "ok"

\* C29: a wallet's stored balance and its transaction rows change only in the
\* commit of a deposit or withdraw on that same wallet: the steps of
\* createWallet and getWallet, the steps of an operation that fails and the
\* steps of operations on other wallets leave them unchanged, and no step
\* removes a wallet.
C29_BalanceFrame ==
    [][ /\ DOMAIN wallets \subseteq DOMAIN wallets'
        /\ \A w \in DOMAIN wallets :
             /\ Ledger(w)' # Ledger(w) => \E r \in Req : CommitsOn(r, w)
             /\ \A r \in Req :
                  ( /\ Stepped(r)
                    /\ \/ req[r].op \in {"create", "get"}
                       \/ req'[r].result \notin {"none", "ok"}
                       \/ req[r].wid # w )
                  => Ledger(w)' = Ledger(w)
    ]_vars

\* a deposit on one wallet has committed while another wallet, created by a
\* second request, still has the balance it was created with and no row
C29_Witness ==
    \E w, v \in DOMAIN wallets :
        /\ w # v
        /\ wallets[w].balance = wallets[w].initial + Quantum
        /\ Len(RowsOf(w)) = 1
        /\ wallets[v].balance = wallets[v].initial
        /\ RowsOf(v) = << >>
        /\ \E r \in Req : req[r].pc = "done" /\ req[r].op = "deposit"
                           /\ req[r].result = "ok" /\ req[r].wid = w

\* the storage sees a statement of request r in this step: a lock or a table
\* changes, or the request moves on from a statement that was sent
StorageAction(r) ==
    /\ Stepped(r)
    /\ \/ <<wallets, transactions, locks>>' # <<wallets, transactions, locks>>
       \/ req[r].pc \in {"entered", "mutated", "written"}

\* C30: the steps of one deposit or withdraw occur in this order: the
\* lock-read of the wallet, for a withdraw the funds check, the balance
\* update, the transaction append, the commit. The balance is updated only
\* from the row the lock-read returned, with the lock held; the append follows
\* the update; the commit follows the append and is the only step that
\* changes the tables; after the commit the request does nothing more.
C30_StepOrder ==
    [][ \A r \in Req :
          (req[r].op \in OperationType /\ Stepped(r)) =>
            /\ req'[r].pc = "mutated" =>
                  /\ req[r].pc = "entered"
                  /\ req[r].wid \in DOMAIN wallets
                  /\ r \in locks'[req[r].wid]
                  /\ req'[r].snap = wallets[req[r].wid].balance
                  /\ req[r].op = "withdraw" =>
                        ~NotEnoughCredits(req'[r].snap, req[r].amount)
                  /\ req'[r].newbal = IF req[r].op = "deposit"
                                       THEN req'[r].snap + req[r].amount
                                       ELSE req'[r].snap - req[r].amount
            /\ req'[r].pc = "written" =>
                  /\ req[r].pc = "mutated"
                  /\ r \in locks[req[r].wid]
            /\ (req'[r].pc = "done" /\ req'[r].result = "ok") =>
                  req[r].pc = "written"
            /\ <<wallets, transactions>>' # <<wallets, transactions>> =>
                  /\ req[r].pc = "written"
                  /\ req'[r].pc = "done"
            /\ req[r].pc \in {"entered", "mutated"} =>
                  UNCHANGED <<wallets, transactions>>
            /\ req[r].pc = "done" => ~StorageAction(r)
    ]_vars

\* a withdraw has passed the funds check, updated the balance and appended
\* its row under the lock and has not committed yet, after a deposit on the
\* same wallet has gone through all its steps
C30_Witness ==
    \E r, q \in Req :
        /\ req[r].op = "withdraw"
        /\ req[r].pc = "written"
        /\ r \in locks[req[r].wid]
        /\ req[r].txamt = Quantum
        /\ req[r].newbal = req[r].snap - Quantum
        /\ wallets[req[r].wid].balance = req[r].snap
        /\ req[q].op = "deposit"
        /\ req[q].pc = "done"
        /\ req[q].result = "ok"
        /\ req[q].wid = req[r].wid
        /\ Len(RowsOf(req[r].wid)) = 1

\* the commit of request r appends one row of the path wallet, of amount a
\* and of the requested kind, and the response carries that row
AppendsRow(r, a) ==
    /\ transactions' = Append(transactions,
            [wallet_id |-> req[r].wid, amount |-> a, kind |-> req[r].kind])
    /\ req'[r].wid = req[r].wid
    /\ req'[r].amount = a
    /\ req'[r].op = req[r].kind

\* the successful operations on wallet w
SucceededOn(w) ==
    {r \in Req : Mutating(r) /\ req[r].pc = "done" /\ req[r].result = "ok"
                  /\ req[r].wid = w}

OneRowPerSuccess ==
    \A w \in WalletIds : Len(RowsOf(w)) = Cardinality(SucceededOn(w))

\* C31: each successful applyOperation appends exactly one row, of the path
\* wallet, of the requested amount and of the requested kind, and returns it;
\* no other step appends a row; the rows of a wallet are as many as the
\* successful operations on it.
C31_RowAsRequested ==
    [][ /\ \A r \in Req :
             CommitsOn(r, req[r].wid) => AppendsRow(r, req[r].amount)
        /\ (~ \E r \in Req : CommitsOn(r, req[r].wid)) => UNCHANGED transactions
        /\ ( \/ transactions' # transactions
             \/ \E r \in Req : req'[r].result = "ok" /\ req[r].result # "ok" )
           => OneRowPerSuccess'
    ]_vars

\* C31, amended: each successful applyOperation appends exactly one row, of
\* the path wallet, of the requested amount rounded to the scale of the
\* amount column and of the requested kind, and returns that stored row; no
\* other step appends a row; the rows of a wallet are as many as the
\* successful operations on it.
C31_RowAsStored ==
    [][ /\ \A r \in Req :
             CommitsOn(r, req[r].wid) => AppendsRow(r, NUMERIC(req[r].amount))
        /\ (~ \E r \in Req : CommitsOn(r, req[r].wid)) => UNCHANGED transactions
        /\ ( \/ transactions' # transactions
             \/ \E r \in Req : req'[r].result = "ok" /\ req[r].result # "ok" )
           => OneRowPerSuccess'
    ]_vars

\* a deposit of 0.005 has inserted its row as 0.01 and is about to commit,
\* after another deposit on the same wallet committed its one row
C31_Witness ==
    \E r, q \in Req :
        /\ req[r].op = "deposit"
        /\ req[r].pc = "written"
        /\ req[r].amount = Quantum \div 2
        /\ req[r].txamt = Quantum
        /\ q \in SucceededOn(req[r].wid)
        /\ Len(RowsOf(req[r].wid)) = 1

\* request r, a withdraw, takes a step that is not a storage failure
WithDrawStep(r) ==
    /\ req[r].op = "withdraw"
    /\ Stepped(r)
    /\ req'[r].result # "StorageFailure"

\* C32: the funds check of a withdraw refuses exactly when the balance is
\* less than the amount; a withdraw of a positive amount equal to the balance
\* goes through every step and leaves the balance 0; the commit of a withdraw
\* sets the stored balance to the old balance minus the requested amount.
C32_WithDrawWholeBalance ==
    [][ \A r \in Req : WithDrawStep(r) =>
          /\ (req[r].pc = "entered" /\ req[r].wid \in DOMAIN wallets) =>
                /\ (req'[r].result = "NotEnoughCredits")
                      <=> (wallets[req[r].wid].balance < req[r].amount)
                /\ (req'[r].pc = "mutated")
                      <=> (wallets[req[r].wid].balance >= req[r].amount)
          /\ ( /\ req[r].pc \in {"mutated", "written"}
               /\ req[r].amount > 0
               /\ req[r].amount = req[r].snap ) =>
                /\ req'[r].pc \in {"written", "done"}
                /\ req'[r].result \in {"none", "ok"}
                /\ req'[r].pc = "done" => wallets'[req[r].wid].balance = 0
          /\ CommitsOn(r, req[r].wid) =>
                wallets'[req[r].wid].balance =
                    wallets[req[r].wid].balance - req[r].amount
    ]_vars

\* C33: a getWallet returns a committed balance of its wallet: the balance
\* it reads is the one committed at the time of the read, whatever a
\* concurrent operation has computed or flushed and not yet committed; it
\* returns the balance it read; and the steps by which an operation is
\* rolled back commit nothing, so a balance of a rolled-back operation is
\* never there to be read.
C33_GetReadsCommitted ==
    [][ \A r \in Req : Stepped(r) =>
          /\ (req[r].op = "get" /\ req'[r].pc = "read") =>
                req'[r].snap = wallets[req[r].wid].balance
          /\ (req[r].op = "get" /\ req[r].pc = "read" /\ req'[r].result = "ok") =>
                req'[r].amount = req[r].snap
          /\ (Mutating(r) /\ req'[r].result \notin {"none", "ok"}) =>
                UNCHANGED wallets
    ]_vars

\* a getWallet has returned the committed balance of a wallet while a
\* deposit on that wallet has flushed another balance and not committed it
C33_Witness ==
    \E r, q \in Req :
        /\ GotWallet(r)
        /\ req[q].op = "deposit"
        /\ req[q].pc = "written"
        /\ req[q].wid = req[r].wid
        /\ req[q].newbal # wallets[req[r].wid].balance
        /\ req[r].amount = wallets[req[r].wid].balance

\* C34: the commit of a deposit or withdraw sets the wallet's updated_at to
\* the time of that operation, which is not earlier than the value it had
\* and not earlier than created_at; no other step changes updated_at, and no
\* step changes created_at.
C34_UpdatedAtRefreshed ==
    [][ \A w \in DOMAIN wallets :
          /\ wallets'[w].created_at = wallets[w].created_at
          /\ \A r \in Req : CommitsOn(r, w) =>
                /\ wallets'[w].updated_at = req[r].began
                /\ wallets'[w].updated_at >= wallets[w].updated_at
                /\ wallets'[w].updated_at >= wallets[w].created_at
          /\ (~ \E r \in Req : CommitsOn(r, w)) =>
                wallets'[w].updated_at = wallets[w].updated_at
    ]_vars

\* what the concurrent run has come to
Outcome ==
    [balance |-> wallets[1].balance,
     rows |-> transactions,
     outcome |-> [r \in Arrived |-> req[r].result]]

\* C35: concurrent deposits and withdraws of mixed amounts on one wallet:
\* a request that takes the lock finds no other request with an uncommitted
\* balance for the wallet, and once all have finished, the balance, the
\* transaction rows in their order and the outcome of each request are those
\* of the same requests executed one at a time in an order of lock-taking
\* (the order of the rows, with the refused requests in between).
C35_SerialEquivalence ==
    /\ \A r, q \in Req :
         (r # q /\ OpenWrite(r) /\ req[q].pc \in {"mutated", "written", "raising"})
            => req[q].wid # req[r].wid
    /\ AllDone =>
         \E o \in Orders(Arrived) :
             SerialRun([balance |-> wallets[1].initial, rows |-> << >>,
                        outcome |-> << >>], o) = Outcome

\* all have finished: a deposit and a withdraw went through and a withdraw
\* was refused
C35_Witness ==
    /\ AllDone
    /\ Cardinality(Arrived) >= 3
    /\ Len(transactions) = 2
    /\ transactions[1].kind # transactions[2].kind
    /\ \E r \in Arrived : req[r].result = "NotEnoughCredits"

\* the wallets whose row lock request r holds
LocksOf(r) == {w \in WalletIds : r \in locks[w]}

\* request r has arrived and has not finished
Unfinished(r) == req[r].pc \notin {"idle", "done"}

\* C36: no reachable state is a deadlock: a request holds the lock of at
\* most one wallet, a request that holds a lock can take its next step
\* whatever the others do, and whenever a request is unfinished some request
\* can take a step.
C36_NoDeadlock ==
    /\ \A r \in Req : Cardinality(LocksOf(r)) <= 1
    /\ \A r \in Req :
         LocksOf(r) # {} => ENABLED (OperationStep(r) \/ UnitOfWork_aexit(r))
    /\ (\E r \in Req : Unfinished(r)) =>
         \E r \in Req : ENABLED (OperationStep(r) \/ UnitOfWork_aexit(r))

\* a request waits for the lock of a wallet that a second request holds
\* while a third holds the lock of another wallet
C36_Witness ==
    \E r, q, p \in Req :
        /\ req[r].pc = "entered"
        /\ q # r
        /\ LocksOf(q) = {req[r].wid}
        /\ LocksOf(p) # {}
        /\ LocksOf(p) # LocksOf(q)

\* the results a request can end with: the row, or a failure the API maps
TypedResults == {"ok", "WalletNotFound", "NotEnoughCredits"}

\* C37: under fair scheduling every createWallet, getWallet and
\* applyOperation request that has arrived eventually ends with a result or
\* a typed failure, and a request that waits at its lock-read eventually
\* gets past it.
C37_EveryRequestCompletes ==
    /\ \A r \in Req :
         Unfinished(r) ~> (req[r].pc = "done" /\ req[r].result \in TypedResults)
    /\ \A r \in Req :
         (req[r].pc = "entered" /\ \E q \in Req \ {r} : req[r].wid \in LocksOf(q))
            ~> (req[r].pc # "entered")

\* a request has ended with a result or a typed failure while another waits
\* at its lock-read for a row lock that a third request holds
C37_Witness ==
    \E r, q \in Req :
        /\ req[r].pc = "done" /\ req[r].result \in TypedResults
        /\ req[q].pc = "entered" /\ req[q].op # "create"
        /\ \E p \in Req \ {q} : req[q].wid \in LocksOf(p)

\* the change a step makes to the stored balance of wallet w, in the
\* direction of an operation of the given kind
BalanceChange(w, kind) ==
    IF kind = "deposit" THEN wallets'[w].balance - wallets[w].balance
                        ELSE wallets[w].balance - wallets'[w].balance

\* C38: the commit of an operation whose requested amount has more than two
\* fractional digits changes the stored balance by the stored amount of its
\* row, and that stored amount is not 0; so after the commit the balance is
\* still the initial balance plus the deposits minus the withdraws of the
\* stored rows.
C38_SubCentChangeIsStoredAmount ==
    [][ \A r \in Req :
          (CommitsOn(r, req[r].wid) /\ req[r].amount % Quantum # 0) =>
            /\ BalanceChange(req[r].wid, req[r].kind) = req[r].txamt
            /\ req[r].txamt > 0
            /\ wallets'[req[r].wid].balance - wallets[req[r].wid].balance
                  = LedgerSum(transactions', req[r].wid)
                      - LedgerSum(transactions, req[r].wid)
    ]_vars

====
